---- MODULE Spec2Model ----
(***************************************************************************)
(* Substrate: the Facade (src/src/index.js, class Substrate at 459-656)    *)
(* and the reference backend adapter PinataStrategy (src/unnamed/part_000) *)
(* over a pinning backend.                                                 *)
(*                                                                         *)
(* Every async method is cut at its awaits: one action per backend call    *)
(* (pinList, unpin, pinJSONToIPFS, gateway fetch), which applies the call  *)
(* to the store and runs the method's synchronous continuation up to the   *)
(* next backend call.  Strings are TLA+ strings, so that the composite     *)
(* identifiers (sub_item = type:id, sub_id = itemHash/type) and the        *)
(* matching done on them (hashContains, ^type: ) are computed, not assumed.*)
(***************************************************************************)
EXTENDS Integers, Sequences, FiniteSets, TLC

VARIABLES
    facade,     \* facade[f]: the constructed Substrate f (client, storageStrategy)
    substrate,  \* substrate[s]: the strategy's back-reference this.substrate (0: unset)
    pins,       \* the backend store: pins[n] is the n-th record ever pinned
    budget,     \* the pin requests the backend still takes
    tasks,      \* tasks[t]: the frame of a running top-level call
    strays,     \* backend calls still in flight of calls that have rejected
    hist        \* what the caller remembers of the call it awaited last (ghost)

vars == <<facade, substrate, pins, budget, tasks, strays, hist>>

\* the backend
store == <<pins, budget>>

---------------------------------------------------------------------------
(* Bounds                                                                  *)

MaxPins == 3        \* records pinned over a run

Facades == {1, 2}
Strategies == {1, 2}
Tasks == {1, 2}

NULL == ""          \* null / undefined scalar (falsy, like '')

\* A value of a caller's keyvalues entry: a bare scalar, or an explicit
\* {value, op} object (op = NULL when the object has none). Scalars are written
\* as strings, the number 0 as "#0" and the boolean false as "#false".
Bare(v) == [pair |-> FALSE, value |-> v, op |-> NULL]
Pair(v, op) == [pair |-> TRUE, value |-> v, op |-> op]

\* The client each Facade is configured with: different tenants.
ClientOf(f) == "c" \o ToString(f)

ItemTypes == {"t"}
DataTypes == {"a", "b"}
Owners == {"o"}
INDEX == "index"

EmptyObj == [k \in {} |-> NULL]

\* Caller-supplied data: plain objects, and one value that is not a plain object.
d1 == [plain |-> TRUE, obj |-> [v |-> "x"]]
d2 == [plain |-> TRUE, obj |-> [v |-> "y"]]
dStr == [plain |-> FALSE, obj |-> EmptyObj]
Datas == {d1, d2, dStr}

\* getItems arguments: pages and limits below, at and above 1, and
\* caller-supplied keyvalues (bare scalars)
Pages == {0, 1, 2}
Limits == {-5, 1}
DefaultLimit == 10
KeyvalueArgs == {EmptyObj, [sub_client |-> Bare(ClientOf(2))]}

\* updateItemMetadata arguments: a key the item does not carry, and keys it
\* carries (the owner and the creation date the layer has tagged it with)
MetaArgs == {[a |-> "1"], [sub_owner |-> "p", sub_date |-> "t9"]}

\* dataTypes arguments, and the omitted (null) argument of removeItem
TypeLists == {<<"a">>, <<"a", "b">>}
NoTypes == <<NULL>>

---------------------------------------------------------------------------
(* Objects and strings                                                     *)

\* {...a, ...b}
Spread(a, b) ==
    [k \in (DOMAIN a) \cup (DOMAIN b) |-> IF k \in DOMAIN b THEN b[k] ELSE a[k]]

Truthy(x) == x # NULL

StartsWith(s, p) == Len(p) <= Len(s) /\ SubSeq(s, 1, Len(p)) = p

Contains(s, p) ==
    \E i \in 1..(Len(s) + 1) :
        i + Len(p) - 1 <= Len(s) /\ SubSeq(s, i, i + Len(p) - 1) = p

\* the characters of the class [a-zA-Z0-9_]
TypeChars ==
    {"a", "b", "c", "d", "e", "f", "g", "h", "i", "j", "k", "l", "m",
     "n", "o", "p", "q", "r", "s", "t", "u", "v", "w", "x", "y", "z",
     "A", "B", "C", "D", "E", "F", "G", "H", "I", "J", "K", "L", "M",
     "N", "O", "P", "Q", "R", "S", "T", "U", "V", "W", "X", "Y", "Z",
     "0", "1", "2", "3", "4", "5", "6", "7", "8", "9", "_"}

\* /^[a-zA-Z0-9_]+$/.test(type)
TypePattern(type) ==
    Len(type) > 0 /\ \A i \in 1..Len(type) : SubSeq(type, i, i) \in TypeChars

\* Substrate.parseType(type) throws: for a type that is falsy, or that does not
\* match the pattern (no method of the Facade or of the strategy calls it)
ParseTypeThrows(type) == ~Truthy(type) \/ ~TypePattern(type)

\* the part of s before its first c (all of s when c is not in it)
RECURSIVE Before(_, _)
Before(s, c) ==
    IF Len(s) = 0 \/ SubSeq(s, 1, 1) = c THEN ""
    ELSE SubSeq(s, 1, 1) \o Before(SubSeq(s, 2, Len(s)), c)

\* _.isPlainObject(data)
IsPlainObject(data) == data.plain

---------------------------------------------------------------------------
(* The pinning backend                                                     *)

HashOf(n) == "Qm" \o ToString(n)

\* an unpinned record: no longer listed (status 'pinned') nor served; its name
\* is kept to tell what it was
Tombstone(rec) ==
    [pinned |-> FALSE, name |-> rec.name, keyvalues |-> EmptyObj, body |-> EmptyObj,
     by |-> 0, type |-> NULL, owner |-> NULL]

Live == {n \in 1..Len(pins) : pins[n].pinned}

\* now: the clock read by new Date().getTime(), in pins made so far
Now == "t" \o ToString(Len(pins))

\* one metadata predicate {value, op} against a record's keyvalues
MatchOp(kv, key, pred) ==
    /\ key \in DOMAIN kv
    /\ CASE pred.op = "eq" -> kv[key] = pred.value
         [] pred.op = "ne" -> kv[key] # pred.value
         [] pred.op = "regexp" ->
                /\ StartsWith(pred.value, "^")
                /\ StartsWith(kv[key], SubSeq(pred.value, 2, Len(pred.value)))
         [] OTHER -> FALSE

\* does the pinned record n answer the query
Matches(n, query) ==
    /\ pins[n].pinned
    /\ (query.hashContains # NULL => Contains(HashOf(n), query.hashContains))
    /\ \A key \in DOMAIN query.keyvalues :
           MatchOp(pins[n].keyvalues, key, query.keyvalues[key])

RECURSIVE RowsFrom(_, _)
RowsFrom(n, query) ==
    IF n = 0 THEN <<>>
    ELSE (IF Matches(n, query) THEN <<n>> ELSE <<>>) \o RowsFrom(n - 1, query)

\* pinata.pinList(args).rows: the matching pinned records, newest first, cut to
\* the page when the query carries one
PinList(query) ==
    LET all == RowsFrom(Len(pins), query)
        last == IF query.offset + query.limit < Len(all)
                THEN query.offset + query.limit ELSE Len(all)
    IN  IF query.limit > 0 THEN SubSeq(all, query.offset + 1, last) ELSE all

\* pinata.pinJSONToIPFS(body, {pinataMetadata}): the store after the pin; with
\* the record, the Facade, type and owner of the call fr that pinned it (ghost)
PinJSON(body, meta, fr) ==
    Append(pins, [pinned |-> TRUE, name |-> meta.name, keyvalues |-> meta.keyvalues,
                  body |-> body, by |-> fr.f, type |-> fr.type, owner |-> fr.owner])

\* pinata.hashMetadata(hash, {keyvalues}): the source does not say whether the
\* backend sets the record's keyvalues to those sent or patches them into the
\* ones it holds (what Pinata documents: keys sent are set, the others are
\* kept); either may happen
HashMetadataModes == {"replace", "patch"}

HashMetadata(hash, keyvalues, mode) ==
    [n \in 1..Len(pins) |->
        IF HashOf(n) = hash
        THEN [pins[n] EXCEPT !.keyvalues = IF mode = "patch" THEN Spread(@, keyvalues)
                                           ELSE keyvalues]
        ELSE pins[n]]

\* pinata.unpin(hash) is rejected for a hash that is not pinned
CanUnpin(hash) == \E n \in Live : HashOf(n) = hash

Unpin(hash) ==
    [n \in 1..Len(pins) |-> IF HashOf(n) = hash THEN Tombstone(pins[n]) ELSE pins[n]]

---------------------------------------------------------------------------
(* Results and frames                                                      *)

Res(kind) ==
    [kind |-> kind, hash |-> NULL, obj |-> EmptyObj, flag |-> FALSE,
     list |-> <<>>, from |-> {}, msg |-> NULL]

Threw(msg) == [Res("error") EXCEPT !.msg = msg]

NoQuery == [hashContains |-> NULL, keyvalues |-> EmptyObj, limit |-> 0, offset |-> 0]
NoPin == [name |-> NULL, keyvalues |-> EmptyObj, body |-> EmptyObj]

\* what a call knows of the call awaited just before it, when that was the
\* same call (same Facade, method, itemHash, type, keep and dataTypes) and it
\* returned (ghost)
NoFirst == [again |-> FALSE, flag |-> FALSE, had |-> 0, wrote |-> NULL]

Idle ==
    [pc |-> "idle", op |-> NULL, f |-> 0, s |-> 0, itemHash |-> NULL, type |-> NULL,
     data |-> dStr, keep |-> FALSE, overwrite |-> FALSE, dataTypes |-> <<>>,
     resolve |-> FALSE, page |-> 1, limit |-> DefaultLimit, owner |-> NULL,
     query |-> NoQuery, target |-> NULL, pinreq |-> NoPin, index |-> EmptyObj,
     kvs |-> EmptyObj, search |-> NULL, sub |-> EmptyObj,
     subs |-> <<>>, result |-> Res("none"),
     pre |-> {}, at |-> 0, had |-> 0, wrote |-> NULL, first |-> NoFirst]

NoCall ==
    [op |-> NULL, f |-> 0, itemHash |-> NULL, type |-> NULL, keep |-> FALSE,
     dataTypes |-> <<>>, flag |-> FALSE, had |-> 0, wrote |-> NULL]

\* this.substrate.client, read by the strategy s
Client(s) == facade[substrate[s]].client

\* a fan-out branch still has a backend call to make
SubPending(sub) == sub.pc \in {"list", "unpin"}

Running(t) == tasks[t].pc # "idle"

\* the live data records of the key (itemHash, type) of a tenant (ghost)
LiveOfKey(client, itemHash, type) ==
    {n \in Live : /\ "sub_id" \in DOMAIN pins[n].keyvalues
                  /\ pins[n].keyvalues["sub_id"] = itemHash \o "/" \o type
                  /\ pins[n].keyvalues["sub_client"] = client}

---------------------------------------------------------------------------
(* PinataStrategy: queries and parsing                                     *)

Eq(value) == [value |-> value, op |-> "eq"]

GetItemQuery(s, itemHash, type) ==
    [hashContains |-> itemHash,
     keyvalues |->
        IF Truthy(type)
        THEN [sub_client |-> Eq(Client(s)),
              sub_item |-> [value |-> "^" \o type \o ":", op |-> "regexp"]]
        ELSE [sub_client |-> Eq(Client(s))],
     limit |-> 0, offset |-> 0]

\* getItemData listing the records of the key whatever their client
GetItemDataQuery_anyClient(s, itemHash, type) ==
    [hashContains |-> NULL,
     keyvalues |-> [sub_id |-> Eq(itemHash \o "/" \o type)],
     limit |-> 0, offset |-> 0]

GetItemDataQuery(s, itemHash, type) ==
    [hashContains |-> NULL,
     keyvalues |-> [sub_client |-> Eq(Client(s)),
                    sub_id |-> Eq(itemHash \o "/" \o type)],
     limit |-> 0, offset |-> 0]

\* a value is truthy in a condition: not '', 0, false (nor null)
JsTruthy(v) == v \notin {NULL, "#0", "#false"}

\* a {value, op} object sent as it is, as the value of a predicate
AsValue(x) == "{value:" \o x.value \o ",op:" \o x.op \o "}"

\* a conversion that tells the two forms apart by the object alone
ConvertKeyvalue_byForm(x) ==
    IF x.pair
    THEN [value |-> x.value, op |-> IF Truthy(x.op) THEN x.op ELSE "eq"]
    ELSE [value |-> x.value, op |-> "eq"]

\* getItems, one caller entry converted: value instanceof Object && value.value
\* gives {value: value.value, op: value.op || 'eq'}, anything else
\* {value: value, op: 'eq'}
ConvertKeyvalue(x) ==
    IF x.pair /\ JsTruthy(x.value)
    THEN [value |-> x.value, op |-> IF Truthy(x.op) THEN x.op ELSE "eq"]
    ELSE [value |-> IF x.pair THEN AsValue(x) ELSE x.value, op |-> "eq"]

\* getItems spreading the caller's predicates over the layer's own
GetItemsQuery_callerLast(s, type, page, limit, keyvalues, owner) ==
    LET p == IF page < 1 THEN 1 ELSE page
        l == IF limit < 1 THEN DefaultLimit ELSE limit
        kv == [k \in DOMAIN keyvalues |-> ConvertKeyvalue(keyvalues[k])]
        kv1 == Spread([sub_client |-> Eq(Client(s)),
                       sub_item |-> [value |-> "^" \o type \o ":", op |-> "regexp"]], kv)
    IN  [hashContains |-> NULL,
         keyvalues |-> IF Truthy(owner) THEN Spread(kv1, [sub_owner |-> Eq(owner)]) ELSE kv1,
         limit |-> l, offset |-> (p - 1) * l]

\* getItems sending the page and the limit as given
GetItemsQuery_unclamped(s, type, page, limit, keyvalues, owner) ==
    LET kv == [k \in DOMAIN keyvalues |-> ConvertKeyvalue(keyvalues[k])]
        kv1 == Spread(kv, [sub_client |-> Eq(Client(s)),
                           sub_item |-> [value |-> "^" \o type \o ":", op |-> "regexp"]])
    IN  [hashContains |-> NULL,
         keyvalues |-> IF Truthy(owner) THEN Spread(kv1, [sub_owner |-> Eq(owner)]) ELSE kv1,
         limit |-> limit, offset |-> (page - 1) * limit]

\* getItems: page and limit clamped, the caller's keyvalues converted to
\* predicates, then the layer's own predicates spread over them
GetItemsQuery(s, type, page, limit, keyvalues, owner) ==
    LET p == IF page < 1 THEN 1 ELSE page
        l == IF limit < 1 THEN DefaultLimit ELSE limit
        kv == [k \in DOMAIN keyvalues |-> ConvertKeyvalue(keyvalues[k])]
        kv1 == Spread(kv, [sub_client |-> Eq(Client(s)),
                           sub_item |-> [value |-> "^" \o type \o ":", op |-> "regexp"]])
    IN  [hashContains |-> NULL,
         keyvalues |-> IF Truthy(owner) THEN Spread(kv1, [sub_owner |-> Eq(owner)]) ELSE kv1,
         limit |-> l, offset |-> (p - 1) * l]

\* parseItem(row): undefined for a row without a sub_item tag
ParseItem(n) ==
    IF "sub_item" \in DOMAIN pins[n].keyvalues /\ Truthy(pins[n].keyvalues["sub_item"])
    THEN [Res("item") EXCEPT !.hash = HashOf(n),
                             !.obj = Spread(pins[n].keyvalues, [sub_hash |-> HashOf(n)]),
                             !.from = {pins[n].by}]
    ELSE Res("undefined")

RawRow(n) ==
    [Res("row") EXCEPT !.hash = HashOf(n), !.obj = pins[n].keyvalues,
                       !.from = {pins[n].by}]

\* parseItemData(row), given the body the private gateway returned
ParseItemData(n) ==
    [Res("data") EXCEPT !.hash = HashOf(n),
                        !.obj = Spread(pins[n].body, [sub_hash |-> HashOf(n)]),
                        !.from = {pins[n].by}]

---------------------------------------------------------------------------
(* Scheduling of the async methods                                         *)

Go(fr) == [frame |-> fr, done |-> FALSE, result |-> Res("none")]
Done(fr, res) == [frame |-> fr, done |-> TRUE, result |-> res]

\* removeItem has rejected because a per-type data removal failed
CascadeRejected(fr) ==
    /\ fr.op = "removeItem" /\ fr.result = Threw("backend")
    /\ \E i \in 1..Len(fr.subs) : fr.subs[i].pc = "failed"

\* what the caller keeps of a call it has awaited: the calls it may repeat,
\* which are those that returned and the removeItem whose cascade was rejected
Remember(fr) ==
    IF fr.op \in {"addItemData", "removeItemData", "indexItem"} /\ fr.result.kind # "error"
    THEN [op |-> fr.op, f |-> fr.f, itemHash |-> fr.itemHash,
          type |-> IF fr.op = "indexItem" THEN NULL ELSE fr.type,
          keep |-> IF fr.op = "indexItem" THEN FALSE ELSE fr.keep,
          dataTypes |-> fr.dataTypes,
          flag |-> fr.result.flag, had |-> fr.had, wrote |-> fr.wrote]
    ELSE IF CascadeRejected(fr)
    THEN [NoCall EXCEPT !.op = fr.op, !.f = fr.f, !.itemHash = fr.itemHash,
                        !.dataTypes = fr.dataTypes]
    ELSE NoCall

FirstOf(fr) ==
    IF /\ hist.op = fr.op /\ hist.f = fr.f /\ hist.itemHash = fr.itemHash
       /\ hist.type = fr.type /\ hist.keep = fr.keep
       /\ hist.dataTypes = fr.dataTypes
    THEN [again |-> TRUE, flag |-> hist.flag, had |-> hist.had, wrote |-> hist.wrote]
    ELSE NoFirst

Settled(out) == [out.frame EXCEPT !.pc = "settled", !.result = out.result]

\* what an awaited call leaves behind: the removals of removeItem that are
\* still in flight go on after the caller has its rejection (the lookups of
\* indexItem still in flight only read the store: they are dropped)
Leftover(fr) ==
    IF fr.op = "removeItem" THEN SelectSeq(fr.subs, SubPending) ELSE <<>>

\* the method of task t goes on to its next backend call, or settles
Advance(t, out) ==
    /\ tasks' = [tasks EXCEPT ![t] = IF out.done THEN Settled(out) ELSE out.frame]
    /\ UNCHANGED hist

\* a top-level call enters through the Facade f, which delegates to its strategy
Enter(t, f, out) ==
    /\ tasks[t].pc = "idle"
    /\ facade[f].storageStrategy # 0
    /\ LET o == [out EXCEPT !.frame.first = FirstOf(out.frame)]
       IN  tasks' = [tasks EXCEPT ![t] = IF o.done THEN Settled(o) ELSE o.frame]
    /\ hist' = NoCall
    /\ UNCHANGED <<strays, facade, substrate, store>>

\* the caller's await returns (or throws): it has the result of task t
Await(t) ==
    /\ tasks[t].pc = "settled"
    /\ tasks' = [tasks EXCEPT ![t] = Idle]
    /\ strays' = strays \o Leftover(tasks[t])
    /\ hist' = Remember(tasks[t])
    /\ UNCHANGED <<facade, substrate, store>>

\* the backend takes a pin request only while the run's budget lasts
PinBudget == budget > 0

Frame(f, op) ==
    [Idle EXCEPT !.op = op, !.f = f, !.s = facade[f].storageStrategy, !.pre = Live,
                 !.at = Len(pins)]

---------------------------------------------------------------------------
(* Facade                                                                  *)

\* new Substrate({client, storageStrategy, ...})
\* no Facade: the slot f of a Facade not constructed yet, with the error of
\* the last attempt to construct it, if it failed (ghost)
NoFacade == [client |-> NULL, storageStrategy |-> 0, threw |-> NULL]

Built(client, s) == [client |-> client, storageStrategy |-> s, threw |-> NULL]

\* the constructor binding the strategy to the new object before it validates
Constructor_bindsFirst(f, client, s) ==
    /\ facade[f].storageStrategy = 0
    /\ IF ~Truthy(client)
       THEN /\ facade' = [facade EXCEPT ![f].threw = "Client identifier is required"]
            /\ substrate' = [k \in Strategies |-> IF k = s THEN f ELSE substrate[k]]
       ELSE IF s = 0
       THEN /\ facade' = [facade EXCEPT ![f].threw = "Storage strategy is required"]
            /\ UNCHANGED substrate
       ELSE /\ facade' = [facade EXCEPT ![f] = Built(client, s)]
            /\ substrate' = [substrate EXCEPT ![s] = f]
    /\ UNCHANGED <<store, tasks, strays, hist>>

\* new Substrate({client, storageStrategy}), s = 0 standing for no strategy:
\* the two checks, then the fields, then the back-reference of the strategy
Constructor(f, client, s) ==
    /\ facade[f].storageStrategy = 0
    /\ IF ~Truthy(client)
       THEN /\ facade' = [facade EXCEPT ![f].threw = "Client identifier is required"]
            /\ UNCHANGED substrate
       ELSE IF s = 0
       THEN /\ facade' = [facade EXCEPT ![f].threw = "Storage strategy is required"]
            /\ UNCHANGED substrate
       ELSE /\ facade' = [facade EXCEPT ![f] = Built(client, s)]
            /\ substrate' = [substrate EXCEPT ![s] = f]
    /\ UNCHANGED <<store, tasks, strays, hist>>

\* new Substrate({client, storageStrategy}) with the client of the tenant f
NewSubstrate(f, s) == Constructor(f, ClientOf(f), s)

---------------------------------------------------------------------------
(* PinataStrategy: the methods up to their first backend call              *)

\* createItem tagging the record with no owner
CreateItem_unowned(t, f, type, owner) ==
    LET fr == Frame(f, "createItem")
        sub == [sub_date |-> Now, sub_client |-> Client(fr.s)]
    IN  Enter(t, f, Go([fr EXCEPT !.type = type, !.owner = owner, !.pc = "create_pin",
                               !.sub = sub, !.kvs = [sub_owner |-> NULL]]))

CreateItem(t, f, type, owner) ==
    LET fr == Frame(f, "createItem")
        sub == [sub_date |-> Now, sub_client |-> Client(fr.s)]
    IN  Enter(t, f, Go([fr EXCEPT !.type = type, !.owner = owner, !.pc = "create_pin",
                               !.sub = sub, !.kvs = [sub_owner |-> owner]]))

\* getItem without the check of its itemHash
GetItem_unchecked(t, f, itemHash, type, resolve) ==
    LET fr == [Frame(f, "getItem") EXCEPT !.itemHash = itemHash, !.type = type,
                                          !.resolve = resolve]
    IN  Enter(t, f, Go([fr EXCEPT !.pc = "getItem_list",
                                  !.query = GetItemQuery(fr.s, itemHash, type)]))

GetItem(t, f, itemHash, type, resolve) ==
    LET fr == [Frame(f, "getItem") EXCEPT !.itemHash = itemHash, !.type = type,
                                          !.resolve = resolve]
    IN  Enter(t, f, IF ~Truthy(itemHash)
              THEN Done(fr, Threw("itemHash is required in getItem"))
              ELSE Go([fr EXCEPT !.pc = "getItem_list",
                                 !.query = GetItemQuery(fr.s, itemHash, type)]))

GetItemData(t, f, itemHash, type, resolve) ==
    LET fr == [Frame(f, "getItemData") EXCEPT !.itemHash = itemHash, !.type = type,
                                              !.resolve = resolve]
    IN  Enter(t, f, Go([fr EXCEPT !.pc = "gid_list",
                            !.query = GetItemDataQuery(fr.s, itemHash, type)]))

GetItems(t, f, type, page, limit, keyvalues, owner) ==
    LET fr == [Frame(f, "getItems") EXCEPT !.type = type, !.page = page, !.limit = limit,
                                           !.kvs = keyvalues, !.owner = owner]
    IN  Enter(t, f, Go([fr EXCEPT !.pc = "getItems_list",
                                  !.query = GetItemsQuery(fr.s, type, page, limit,
                                                          keyvalues, owner)]))

RemoveItemData(t, f, itemHash, type) ==
    LET fr == [Frame(f, "removeItemData") EXCEPT
                  !.itemHash = itemHash, !.type = type,
                  !.had = Cardinality(LiveOfKey(facade[f].client, itemHash, type))]
    IN  Enter(t, f, Go([fr EXCEPT !.pc = "rid_list",
                            !.query = GetItemDataQuery(fr.s, itemHash, type)]))

\* addItemData starts with getItem({itemHash})
AddItemDataEntry(fr) ==
    IF ~Truthy(fr.itemHash)
    THEN Done(fr, Threw("itemHash is required in getItem"))
    ELSE Go([fr EXCEPT !.pc = "aid_getItem",
                       !.query = GetItemQuery(fr.s, fr.itemHash, NULL)])

\* addItemData({itemHash, type, data, keep, keyvalues, search})
AddItemDataWith(t, f, itemHash, type, data, keep, keyvalues, search) ==
    LET fr == [Frame(f, "addItemData") EXCEPT !.itemHash = itemHash, !.type = type,
                                              !.data = data, !.keep = keep,
                                              !.kvs = keyvalues, !.search = search]
        had == Cardinality(LiveOfKey(facade[f].client, itemHash, type))
    IN  Enter(t, f, AddItemDataEntry([fr EXCEPT !.had = had]))

\* addItemData called without keyvalues and search (their defaults {} and null)
AddItemData(t, f, itemHash, type, data, keep) ==
    AddItemDataWith(t, f, itemHash, type, data, keep, EmptyObj, NULL)

RemoveItem(t, f, itemHash, dataTypes) ==
    LET fr == [Frame(f, "removeItem") EXCEPT !.itemHash = itemHash,
                                             !.dataTypes = dataTypes]
    IN  Enter(t, f, IF ~Truthy(itemHash)
              THEN Done(fr, Threw("itemHash is required in getItem"))
              ELSE Go([fr EXCEPT !.pc = "ri_getItem",
                                 !.query = GetItemQuery(fr.s, itemHash, NULL)]))

\* updateItemMetadata starts with getItem({itemHash, resolve: false})
UpdateItemMetadata(t, f, itemHash, keyvalues, overwrite) ==
    LET fr == [Frame(f, "updateItemMetadata") EXCEPT !.itemHash = itemHash,
                                                     !.kvs = keyvalues,
                                                     !.overwrite = overwrite]
    IN  Enter(t, f, IF ~Truthy(itemHash)
              THEN Done(fr, Threw("itemHash is required in getItem"))
              ELSE Go([fr EXCEPT !.pc = "uim_getItem",
                                 !.query = GetItemQuery(fr.s, itemHash, NULL)]))

\* indexItem launches one getItemData per type before it awaits any
IndexItem(t, f, itemHash, dataTypes) ==
    LET fr == [Frame(f, "indexItem") EXCEPT !.itemHash = itemHash,
                                            !.dataTypes = dataTypes]
        subs == [i \in 1..Len(dataTypes) |->
                    [pc |-> "list", type |-> dataTypes[i], target |-> NULL,
                     query |-> GetItemDataQuery(fr.s, itemHash, dataTypes[i])]]
    IN  Enter(t, f, Go([fr EXCEPT !.pc = "ix_join", !.subs = subs]))

---------------------------------------------------------------------------
(* PinataStrategy: one action per backend call and its continuation        *)

Step(t, out) ==
    /\ Advance(t, out)
    /\ UNCHANGED <<strays, facade, substrate>>

\* createItem: pinJSONToIPFS({...sub}, {pinataMetadata}), returns response.IpfsHash
CreateItemPin(t) ==
    LET fr == tasks[t]
        id == "id" \o ToString(Len(pins) + 1)
        sub == Spread([sub_item |-> fr.type \o ":" \o id], fr.sub)
        meta == [name |-> sub.sub_item, keyvalues |-> Spread(fr.kvs, sub)]
        hash == HashOf(Len(pins) + 1)
    IN  /\ fr.pc = "create_pin"
        /\ PinBudget
        /\ pins' = PinJSON(sub, meta, fr)
        /\ budget' = budget - 1
        /\ Step(t, Done([fr EXCEPT !.wrote = hash], [Res("hash") EXCEPT !.hash = hash]))

\* getItem: pinList, then rows[0] parsed or raw, or null
GetItemResult(rows, resolve) ==
    IF Len(rows) > 0
    THEN (IF resolve THEN ParseItem(rows[1]) ELSE RawRow(rows[1]))
    ELSE Res("null")

GetItemList(t) ==
    LET fr == tasks[t]
    IN  /\ fr.pc = "getItem_list"
        /\ Step(t, Done(fr, GetItemResult(PinList(fr.query), fr.resolve)))
        /\ UNCHANGED store

\* getItems: pinList, then [] or every row parsed
GetItemsList(t) ==
    LET fr == tasks[t]
        rows == PinList(fr.query)
    IN  /\ fr.pc = "getItems_list"
        /\ Step(t, Done(fr, [Res("list") EXCEPT
                                !.list = [i \in 1..Len(rows) |-> ParseItem(rows[i])],
                                !.from = {pins[rows[i]].by : i \in 1..Len(rows)}]))
        /\ UNCHANGED store

\* getItemData: pinList, then rows[0] raw, or resolved through the private
\* gateway, or undefined
GetItemDataList(t) ==
    LET fr == tasks[t]
        rows == PinList(fr.query)
    IN  /\ fr.pc = "gid_list"
        /\ Step(t, IF Len(rows) = 0 THEN Done(fr, Res("undefined"))
                   ELSE IF fr.resolve
                        THEN Go([fr EXCEPT !.pc = "gid_fetch", !.target = HashOf(rows[1])])
                        ELSE Done(fr, RawRow(rows[1])))
        /\ UNCHANGED store

\* parseItemData: substrate.privateResolve(hash).then(res => res.json())
GetItemDataFetch(t) ==
    LET fr == tasks[t]
    IN  /\ fr.pc = "gid_fetch"
        /\ Step(t, IF \E n \in Live : HashOf(n) = fr.target
                   THEN Done(fr, ParseItemData(CHOOSE n \in Live : HashOf(n) = fr.target))
                   ELSE Done(fr, Threw("fetch")))
        /\ UNCHANGED store

\* addItemData after its removeItemData: the data check, then the pin request
AfterRemove(fr) ==
    IF IsPlainObject(fr.data)
    THEN Go([fr EXCEPT !.pc = "aid_pin",
                       !.pinreq.body = Spread(fr.data.obj, fr.sub)])
    ELSE Done(fr, Threw("Data must be an object"))

\* a variant that takes whatever getItem answered for an item
ItemMissing_never(item) == FALSE

\* if (!item): getItem answered null, or parseItem undefined
ItemMissing(item) == item.kind \in {"null", "undefined"}

\* a variant that removes the current record when keep is set, not when it is not
Replaces_inverted(fr) == fr.keep

\* if (!keep): the record of the key is removed before the new one is pinned
Replaces(fr) == ~fr.keep

\* a variant that spreads the caller's keyvalues over the layer's tags
AfterGetItem_callerLast(fr, item) ==
    IF ItemMissing(item)
    THEN Done(fr, Threw("Item not found"))
    ELSE LET sub == [sub_id |-> fr.itemHash \o "/" \o fr.type,
                     sub_date |-> Now,
                     sub_client |-> Client(fr.s)]
             kv0 == Spread(sub, fr.kvs)
             kv == IF Truthy(fr.search) THEN Spread(kv0, [search |-> fr.search]) ELSE kv0
             fr1 == [fr EXCEPT !.sub = sub,
                               !.pinreq = [name |-> sub.sub_id, keyvalues |-> kv,
                                           body |-> EmptyObj]]
         IN  IF Replaces(fr)
             THEN Go([fr1 EXCEPT !.pc = "rid_list",
                                 !.query = GetItemDataQuery(fr.s, fr.itemHash, fr.type)])
             ELSE AfterRemove(fr1)

\* addItemData once getItem has answered
AfterGetItem(fr, item) ==
    IF ItemMissing(item)
    THEN Done(fr, Threw("Item not found"))
    ELSE LET sub == [sub_id |-> fr.itemHash \o "/" \o fr.type,
                     sub_date |-> Now,
                     sub_client |-> Client(fr.s)]
             kv0 == Spread(fr.kvs, sub)
             kv == IF Truthy(fr.search) THEN Spread(kv0, [search |-> fr.search]) ELSE kv0
             fr1 == [fr EXCEPT !.sub = sub,
                               !.pinreq = [name |-> sub.sub_id, keyvalues |-> kv,
                                           body |-> EmptyObj]]
         IN  IF Replaces(fr)
             THEN Go([fr1 EXCEPT !.pc = "rid_list",
                                 !.query = GetItemDataQuery(fr.s, fr.itemHash, fr.type)])
             ELSE AfterRemove(fr1)

AddItemDataGetItem(t) ==
    LET fr == tasks[t]
    IN  /\ fr.pc = "aid_getItem"
        /\ Step(t, AfterGetItem(fr, GetItemResult(PinList(fr.query), TRUE)))
        /\ UNCHANGED store

\* what follows removeItemData's return value
AfterRemoveItemData(fr, removed) ==
    IF fr.op = "removeItemData"
    THEN Done(fr, [Res("bool") EXCEPT !.flag = removed])
    ELSE AfterRemove(fr)

\* removeItemData: getItemData({resolve: false}), false when nothing is found
RemoveItemDataList(t) ==
    LET fr == tasks[t]
        rows == PinList(fr.query)
    IN  /\ fr.pc = "rid_list"
        /\ Step(t, IF Len(rows) > 0
                   THEN Go([fr EXCEPT !.pc = "rid_unpin", !.target = HashOf(rows[1])])
                   ELSE AfterRemoveItemData(fr, FALSE))
        /\ UNCHANGED store

\* removeItemData: unpin(itemData.ipfs_pin_hash), then true
RemoveItemDataUnpin(t) ==
    LET fr == tasks[t]
    IN  /\ fr.pc = "rid_unpin"
        /\ IF CanUnpin(fr.target)
           THEN /\ pins' = Unpin(fr.target)
                /\ UNCHANGED budget
                /\ Step(t, AfterRemoveItemData(fr, TRUE))
           ELSE /\ UNCHANGED store
                /\ Step(t, Done(fr, Threw("unpin")))

\* addItemData: pinJSONToIPFS(data, pinataOptions); indexItem goes on to
\* getItemData({itemHash: indexData.IpfsHash, type: 'index'})
\* addItemData creating before it removes: the record is pinned and the
\* newest record of the key, which is that record, is then unpinned
AddItemDataPin_removesNewest(t) ==
    LET fr == tasks[t]
        hash == HashOf(Len(pins) + 1)
        made == PinJSON(fr.pinreq.body, fr.pinreq, fr)
    IN  /\ fr.pc = "aid_pin"
        /\ PinBudget
        /\ pins' = IF fr.op = "addItemData" /\ ~fr.keep
                   THEN [n \in 1..Len(made) |->
                            IF n = Len(made) THEN Tombstone(made[n]) ELSE made[n]]
                   ELSE made
        /\ budget' = budget - 1
        /\ Step(t, IF fr.op = "indexItem"
                   THEN Go([fr EXCEPT !.pc = "gid_list", !.resolve = TRUE,
                                      !.wrote = hash,
                                      !.query = GetItemDataQuery(fr.s, hash, INDEX)])
                   ELSE Done([fr EXCEPT !.wrote = hash],
                             [Res("pinned") EXCEPT !.hash = hash]))

\* addItemData replacing the records of its key in one backend step
AddItemDataPin_atomic(t) ==
    LET fr == tasks[t]
        hash == HashOf(Len(pins) + 1)
        key == LiveOfKey(Client(fr.s), fr.itemHash, fr.type)
        made == PinJSON(fr.pinreq.body, fr.pinreq, fr)
    IN  /\ fr.pc = "aid_pin"
        /\ PinBudget
        /\ pins' = IF fr.op = "addItemData" /\ ~fr.keep
                   THEN [n \in 1..Len(made) |->
                            IF n \in key THEN Tombstone(made[n]) ELSE made[n]]
                   ELSE made
        /\ budget' = budget - 1
        /\ Step(t, IF fr.op = "indexItem"
                   THEN Go([fr EXCEPT !.pc = "gid_list", !.resolve = TRUE,
                                      !.wrote = hash,
                                      !.query = GetItemDataQuery(fr.s, hash, INDEX)])
                   ELSE Done([fr EXCEPT !.wrote = hash],
                             [Res("pinned") EXCEPT !.hash = hash]))

AddItemDataPin(t) ==
    LET fr == tasks[t]
        hash == HashOf(Len(pins) + 1)
    IN  /\ fr.pc = "aid_pin"
        /\ PinBudget
        /\ pins' = PinJSON(fr.pinreq.body, fr.pinreq, fr)
        /\ budget' = budget - 1
        /\ Step(t, IF fr.op = "indexItem"
                   THEN Go([fr EXCEPT !.pc = "gid_list", !.resolve = TRUE,
                                      !.wrote = hash,
                                      !.query = GetItemDataQuery(fr.s, hash, INDEX)])
                   ELSE Done([fr EXCEPT !.wrote = hash],
                             [Res("pinned") EXCEPT !.hash = hash]))

\* updateItemMetadata once getItem has answered: item.metadata (a TypeError on
\* the null that getItem returns when nothing is found), then the keyvalues to
\* send: the supplied ones, spread over the item's unless overwrite is set
AfterItemRead(fr, rows) ==
    IF Len(rows) = 0
    THEN Done(fr, Threw("TypeError"))
    ELSE LET metadata == pins[rows[1]].keyvalues
         IN  Go([fr EXCEPT !.pc = "uim_meta", !.target = fr.itemHash,
                           !.sub = metadata,
                           !.pinreq.keyvalues = IF ~fr.overwrite
                                                THEN Spread(metadata, fr.kvs)
                                                ELSE fr.kvs])

UpdateGetItem(t) ==
    LET fr == tasks[t]
    IN  /\ fr.pc = "uim_getItem"
        /\ Step(t, AfterItemRead(fr, PinList(fr.query)))
        /\ UNCHANGED store

\* updateItemMetadata: return this.pinata.hashMetadata(itemHash, {keyvalues})
UpdateHashMetadata(t) ==
    LET fr == tasks[t]
    IN  /\ fr.pc = "uim_meta"
        /\ IF CanUnpin(fr.target)
           THEN /\ \E mode \in HashMetadataModes :
                       pins' = HashMetadata(fr.target, fr.pinreq.keyvalues, mode)
                /\ UNCHANGED budget
                /\ Step(t, Done(fr, Res("ok")))
           ELSE /\ UNCHANGED store
                /\ Step(t, Done(fr, Threw("hashMetadata")))

\* removeItem: getItem({itemHash}), then unpin(itemHash)
RemoveItemGetItem(t) ==
    LET fr == tasks[t]
        item == GetItemResult(PinList(fr.query), TRUE)
    IN  /\ fr.pc = "ri_getItem"
        /\ Step(t, IF ItemMissing(item)
                   THEN Done(fr, Threw("Item not found"))
                   ELSE Go([fr EXCEPT !.pc = "ri_unpin", !.target = fr.itemHash]))
        /\ UNCHANGED store

\* removeItem after unpin(itemHash): nothing more without dataTypes, else one
\* removeItemData per listed type, all launched before any is awaited
AfterItemUnpin(fr) ==
    IF fr.dataTypes = NoTypes
    THEN Done(fr, Res("undefined"))
    ELSE Go([fr EXCEPT !.pc = "ri_join",
                       !.subs = [i \in 1..Len(fr.dataTypes) |->
                                    [pc |-> "list", type |-> fr.dataTypes[i],
                                     target |-> NULL,
                                     query |-> GetItemDataQuery(fr.s, fr.itemHash,
                                                                fr.dataTypes[i])]]])

RemoveItemUnpin(t) ==
    LET fr == tasks[t]
    IN  /\ fr.pc = "ri_unpin"
        /\ IF CanUnpin(fr.target)
           THEN /\ pins' = Unpin(fr.target)
                /\ UNCHANGED budget
                /\ Step(t, AfterItemUnpin(fr))
           ELSE /\ UNCHANGED store
                /\ Step(t, Done(fr, Threw("unpin")))

\* a variant that writes the index beside the one stored before (keep: true)
AfterJoin_keeps(fr) ==
    IF fr.op = "indexItem"
    THEN AddItemDataEntry([fr EXCEPT !.type = INDEX, !.keep = TRUE,
                                     !.data = [plain |-> TRUE, obj |-> fr.index]])
    ELSE Done(fr, Res("undefined"))

\* what follows await Promise.all(promises) once every branch has fulfilled
AfterJoin(fr) ==
    IF fr.op = "indexItem"
    THEN AddItemDataEntry([fr EXCEPT !.type = INDEX, !.keep = FALSE,
                                     !.data = [plain |-> TRUE, obj |-> fr.index]])
    ELSE Done(fr, Res("undefined"))

\* a variant that waits for every branch and goes on whatever became of them
\* a join that takes a rejected branch for a finished one
Join_swallows(fr, i) ==
    IF \A j \in 1..Len(fr.subs) : fr.subs[j].pc \in {"done", "failed", "threw"}
    THEN AfterJoin(fr) ELSE Go(fr)

Join_allSettled(fr, i) ==
    IF \A j \in 1..Len(fr.subs) : ~SubPending(fr.subs[j]) THEN AfterJoin(fr) ELSE Go(fr)

\* Promise.all: rejects with the first branch that rejects, fulfils when all have
Join(fr, i) ==
    IF fr.subs[i].pc = "threw" THEN Done(fr, Threw("TypeError"))
    ELSE IF fr.subs[i].pc = "failed" THEN Done(fr, Threw("backend"))
    ELSE IF \A j \in 1..Len(fr.subs) : fr.subs[j].pc = "done" THEN AfterJoin(fr)
    ELSE Go(fr)

\* a fan-out branch has made a step: the caller is at the join, or has its
\* rejection already
Branch(t, fr, i) ==
    /\ IF fr.pc = "settled"
       THEN tasks' = [tasks EXCEPT ![t] = fr] /\ UNCHANGED hist
       ELSE Advance(t, Join(fr, i))
    /\ UNCHANGED <<strays, facade, substrate>>

\* indexItem's branch: getItemData({resolve: false}), then data.ipfs_pin_hash
\* (a TypeError on the undefined that getItemData returns when nothing is found)
IndexLookup(t, i) ==
    LET fr == tasks[t]
        rows == PinList(fr.subs[i].query)
    IN  /\ fr.op = "indexItem" /\ fr.pc = "ix_join"
        /\ i \in 1..Len(fr.subs) /\ fr.subs[i].pc = "list"
        /\ Branch(t, IF Len(rows) > 0
                     THEN [fr EXCEPT !.subs[i].pc = "done",
                                     !.index = Spread(@, (fr.subs[i].type :> HashOf(rows[1])))]
                     ELSE [fr EXCEPT !.subs[i].pc = "threw"],
                  i)
        /\ UNCHANGED store

\* removeItem's branch, removeItemData: getItemData({resolve: false})
RemoveBranchList(t, i) ==
    LET fr == tasks[t]
        rows == PinList(fr.subs[i].query)
    IN  /\ fr.op = "removeItem" /\ fr.pc \in {"ri_join", "settled"}
        /\ i \in 1..Len(fr.subs) /\ fr.subs[i].pc = "list"
        /\ Branch(t, IF Len(rows) > 0
                     THEN [fr EXCEPT !.subs[i].pc = "unpin",
                                     !.subs[i].target = HashOf(rows[1])]
                     ELSE [fr EXCEPT !.subs[i].pc = "done"],
                  i)
        /\ UNCHANGED store

\* removeItem's branch, removeItemData: unpin(itemData.ipfs_pin_hash)
RemoveBranchUnpin(t, i) ==
    LET fr == tasks[t]
    IN  /\ fr.op = "removeItem" /\ fr.pc \in {"ri_join", "settled"}
        /\ i \in 1..Len(fr.subs) /\ fr.subs[i].pc = "unpin"
        /\ IF CanUnpin(fr.subs[i].target)
           THEN /\ pins' = Unpin(fr.subs[i].target)
                /\ UNCHANGED budget
                /\ Branch(t, [fr EXCEPT !.subs[i].pc = "done"], i)
           ELSE /\ UNCHANGED store
                /\ Branch(t, [fr EXCEPT !.subs[i].pc = "failed"], i)

\* the strays without the i-th
Without(seq, i) == SubSeq(seq, 1, i - 1) \o SubSeq(seq, i + 1, Len(seq))

\* a removal left in flight by a rejected removeItem: its getItemData
StrayList(i) ==
    /\ i \in 1..Len(strays) /\ strays[i].pc = "list"
    /\ LET rows == PinList(strays[i].query)
       IN  strays' = IF Len(rows) > 0
                     THEN [strays EXCEPT ![i].pc = "unpin", ![i].target = HashOf(rows[1])]
                     ELSE Without(strays, i)
    /\ UNCHANGED <<facade, substrate, store, tasks, hist>>

\* a removal left in flight by a rejected removeItem: its unpin, which nobody
\* awaits any more
StrayUnpin(i) ==
    /\ i \in 1..Len(strays) /\ strays[i].pc = "unpin"
    /\ pins' = IF CanUnpin(strays[i].target) THEN Unpin(strays[i].target) ELSE pins
    /\ UNCHANGED budget
    /\ strays' = Without(strays, i)
    /\ UNCHANGED <<facade, substrate, tasks, hist>>

---------------------------------------------------------------------------
(* Dependency failures: the backend or the gateway rejects a call          *)

StrayRejects(i) ==
    /\ i \in 1..Len(strays)
    /\ strays' = Without(strays, i)
    /\ UNCHANGED <<facade, substrate, store, tasks, hist>>

BackendRejects(t) ==
    /\ tasks[t].pc \notin {"idle", "settled", "ix_join", "ri_join"}
    /\ Advance(t, Done(tasks[t], Threw("backend")))
    /\ UNCHANGED <<strays, facade, substrate, store>>

BranchRejects(t, i) ==
    /\ \/ tasks[t].pc \in {"ix_join", "ri_join"}
       \/ tasks[t].pc = "settled" /\ tasks[t].op = "removeItem"
    /\ i \in 1..Len(tasks[t].subs) /\ SubPending(tasks[t].subs[i])
    /\ Branch(t, [tasks[t] EXCEPT !.subs[i].pc = "failed"], i)
    /\ UNCHANGED store

---------------------------------------------------------------------------
(* Specification                                                           *)

\* The first Facade has been constructed around the first strategy instance;
\* the second one is constructed at any time: around a strategy instance of its
\* own in Spec, around the instance of the first in SpecShared.

Init ==
    /\ facade = [f \in Facades |-> IF f = 1 THEN Built(ClientOf(1), 1) ELSE NoFacade]
    /\ substrate = [s \in Strategies |-> IF s = 1 THEN 1 ELSE 0]
    /\ pins = <<>>
    /\ budget = MaxPins
    /\ tasks = [t \in Tasks |-> Idle]
    /\ strays = <<>>
    /\ hist = NoCall

\* the hashes a caller passes: those the backend has handed out, and one it has not
HashArgs == {HashOf(n) : n \in 0..Len(pins)}

\* the caller awaits each call before it makes the next, and makes the next
\* once the backend has answered what a rejected call left in flight
Quiet == strays = <<>> /\ \A t \in Tasks : ~Running(t)
Slot(t) == tasks[t].pc = "idle" /\ \A u \in Tasks : u < t => tasks[u].pc # "idle"

Call(t) ==
    \E f \in Facades :
        \/ \E type \in ItemTypes, owner \in Owners : CreateItem(t, f, type, owner)
        \/ \E h \in HashArgs, resolve \in BOOLEAN : GetItem(t, f, h, NULL, resolve)
        \/ \E type \in ItemTypes, page \in Pages, limit \in Limits,
              kv \in KeyvalueArgs, owner \in Owners \cup {NULL} :
               GetItems(t, f, type, page, limit, kv, owner)
        \/ \E h \in HashArgs, type \in DataTypes \cup {INDEX}, resolve \in BOOLEAN :
               GetItemData(t, f, h, type, resolve)
        \/ \E h \in HashArgs, type \in DataTypes, d \in Datas, keep \in BOOLEAN :
               AddItemData(t, f, h, type, d, keep)
        \/ \E h \in HashArgs, type \in DataTypes : RemoveItemData(t, f, h, type)
        \/ \E h \in HashArgs, types \in TypeLists \cup {NoTypes} : RemoveItem(t, f, h, types)
        \/ \E h \in HashArgs, types \in TypeLists : IndexItem(t, f, h, types)

Backend(t) ==
    \/ CreateItemPin(t)
    \/ GetItemList(t)
    \/ GetItemsList(t)
    \/ GetItemDataList(t)
    \/ GetItemDataFetch(t)
    \/ AddItemDataGetItem(t)
    \/ RemoveItemDataList(t)
    \/ RemoveItemDataUnpin(t)
    \/ AddItemDataPin(t)
    \/ RemoveItemGetItem(t)
    \/ RemoveItemUnpin(t)
    \/ \E i \in 1..2 : IndexLookup(t, i) \/ RemoveBranchList(t, i) \/ RemoveBranchUnpin(t, i)
    \/ BackendRejects(t)
    \/ \E i \in 1..2 : BranchRejects(t, i)

\* what the callers and the backend do, whatever Facades there are
Run ==
    \/ \E t \in Tasks : Quiet /\ Slot(t) /\ Call(t)
    \/ \E t \in Tasks : Backend(t)
    \/ \E t \in Tasks : Await(t)
    \/ \E i \in 1..2 : StrayList(i) \/ StrayUnpin(i) \/ StrayRejects(i)

Next ==
    \/ \E f \in Facades : NewSubstrate(f, f)
    \/ Run

Spec == Init /\ [][Next]_vars

\* the second Facade is constructed around the strategy instance of the first
NextShared ==
    \/ \E f \in Facades : NewSubstrate(f, 1)
    \/ Run

SpecShared == Init /\ [][NextShared]_vars

\* One tenant creating, reading, updating and removing items, with a stranger
\* hash among the arguments: the histories of an item's metadata.
CallMeta(t) ==
    \/ \E type \in ItemTypes, owner \in Owners : CreateItem(t, 1, type, owner)
    \/ \E h \in HashArgs, resolve \in BOOLEAN : GetItem(t, 1, h, NULL, resolve)
    \/ \E h \in HashArgs, kv \in MetaArgs, overwrite \in BOOLEAN :
           UpdateItemMetadata(t, 1, h, kv, overwrite)
    \/ \E h \in HashArgs : RemoveItem(t, 1, h, NoTypes)

BackendMeta(t) ==
    \/ CreateItemPin(t)
    \/ GetItemList(t)
    \/ UpdateGetItem(t)
    \/ UpdateHashMetadata(t)
    \/ RemoveItemGetItem(t)
    \/ RemoveItemUnpin(t)
    \/ BackendRejects(t)

NextMeta ==
    \/ \E t \in Tasks : Quiet /\ Slot(t) /\ CallMeta(t)
    \/ \E t \in Tasks : BackendMeta(t)
    \/ \E t \in Tasks : Await(t)

SpecMeta == Init /\ [][NextMeta]_vars

\* One tenant writing, removing and indexing the data records of its items,
\* against a backend that takes one pin more than in Spec: the histories in
\* which a key holds several records (keep=true) before it is written again,
\* and in which an item with a data record is indexed twice.
MaxDataPins == 4

InitData ==
    /\ facade = [f \in Facades |-> IF f = 1 THEN Built(ClientOf(1), 1) ELSE NoFacade]
    /\ substrate = [s \in Strategies |-> IF s = 1 THEN 1 ELSE 0]
    /\ pins = <<>>
    /\ budget = MaxDataPins
    /\ tasks = [t \in Tasks |-> Idle]
    /\ strays = <<>>
    /\ hist = NoCall

CallData(t) ==
    \/ \E type \in ItemTypes, owner \in Owners : CreateItem(t, 1, type, owner)
    \/ \E h \in HashArgs, type \in DataTypes, d \in {d1, d2}, keep \in BOOLEAN :
           AddItemData(t, 1, h, type, d, keep)
    \/ \E h \in HashArgs, type \in DataTypes : RemoveItemData(t, 1, h, type)
    \/ \E h \in HashArgs, types \in TypeLists \cup {<<"a", INDEX>>} :
           IndexItem(t, 1, h, types)

BackendData(t) ==
    \/ CreateItemPin(t)
    \/ GetItemDataList(t)
    \/ AddItemDataGetItem(t)
    \/ RemoveItemDataList(t)
    \/ RemoveItemDataUnpin(t)
    \/ AddItemDataPin(t)
    \/ \E i \in 1..2 : IndexLookup(t, i)
    \/ BackendRejects(t)
    \/ \E i \in 1..2 : BranchRejects(t, i)

NextData ==
    \/ \E t \in Tasks : Quiet /\ Slot(t) /\ CallData(t)
    \/ \E t \in Tasks : BackendData(t)
    \/ \E t \in Tasks : Await(t)

SpecData == InitData /\ [][NextData]_vars

\* Two tenants creating items of several types and owners, reading them back
\* one by one and by pages, and removing them, against a backend that takes
\* MaxItemPins records: what the item queries carry and what they return.
MaxItemPins == 2

\* createItem arguments: a type of letters, digits and underscore, types with
\* a colon and with a space, and two owners
TypeArgs == {"T_1", "a:b", "x y"}
OwnerArgs == {"o", "p"}

\* getItems arguments: the types listed, and keyvalues named like the layer's
\* own predicates
ListTypeArgs == {"T_1", "T", "a"}
KeyvalueItemArgs == {EmptyObj, [sub_client |-> Bare(ClientOf(2)), sub_item |-> Bare("x:")]}

InitItems ==
    /\ facade = [f \in Facades |-> IF f = 1 THEN Built(ClientOf(1), 1) ELSE NoFacade]
    /\ substrate = [s \in Strategies |-> IF s = 1 THEN 1 ELSE 0]
    /\ pins = <<>>
    /\ budget = MaxItemPins
    /\ tasks = [t \in Tasks |-> Idle]
    /\ strays = <<>>
    /\ hist = NoCall

CallItems(t) ==
    \E f \in Facades :
        \/ \E type \in TypeArgs, owner \in OwnerArgs : CreateItem(t, f, type, owner)
        \/ \E h \in HashArgs \cup {NULL}, resolve \in BOOLEAN :
               GetItem(t, f, h, NULL, resolve)
        \/ \E type \in ListTypeArgs, page \in Pages, limit \in Limits,
              kv \in KeyvalueItemArgs, owner \in {NULL, "o"} :
               GetItems(t, f, type, page, limit, kv, owner)
        \/ \E h \in HashArgs : GetItemData(t, f, h, "a", FALSE)
        \/ \E h \in HashArgs : RemoveItem(t, f, h, NoTypes)

BackendItems(t) ==
    \/ CreateItemPin(t)
    \/ GetItemList(t)
    \/ GetItemsList(t)
    \/ GetItemDataList(t)
    \/ RemoveItemGetItem(t)
    \/ RemoveItemUnpin(t)
    \/ BackendRejects(t)

NextItems ==
    \/ \E f \in Facades : NewSubstrate(f, f)
    \/ \E t \in Tasks : Quiet /\ Slot(t) /\ CallItems(t)
    \/ \E t \in Tasks : BackendItems(t)
    \/ \E t \in Tasks : Await(t)

SpecItems == InitItems /\ [][NextItems]_vars

\* Facades constructed with and without a client and a strategy, around a
\* strategy instance of their own or around one already bound, and used to
\* create and read items.
InitNew ==
    /\ facade = [f \in Facades |-> NoFacade]
    /\ substrate = [s \in Strategies |-> 0]
    /\ pins = <<>>
    /\ budget = MaxItemPins
    /\ tasks = [t \in Tasks |-> Idle]
    /\ strays = <<>>
    /\ hist = NoCall

CallNew(t) ==
    \E f \in Facades :
        \/ \E type \in ItemTypes, owner \in Owners : CreateItem(t, f, type, owner)
        \/ \E h \in HashArgs, resolve \in BOOLEAN : GetItem(t, f, h, NULL, resolve)

BackendNew(t) ==
    \/ CreateItemPin(t)
    \/ GetItemList(t)
    \/ BackendRejects(t)

NextNew ==
    \/ \E f \in Facades, s \in Strategies \cup {0} :
           \E client \in {NULL, ClientOf(f)} : Constructor(f, client, s)
    \/ \E t \in Tasks : Quiet /\ Slot(t) /\ CallNew(t)
    \/ \E t \in Tasks : BackendNew(t)
    \/ \E t \in Tasks : Await(t)

SpecNew == InitNew /\ [][NextNew]_vars

\* One tenant writing the record of one key from two callers that do not wait
\* for each other: an addItemData call (keep=false) may start in either task
\* while the other task's call is still running, and the backend serves their
\* requests in any order.
MaxRacePins == 4

InitRace ==
    /\ facade = [f \in Facades |-> IF f = 1 THEN Built(ClientOf(1), 1) ELSE NoFacade]
    /\ substrate = [s \in Strategies |-> IF s = 1 THEN 1 ELSE 0]
    /\ pins = <<>>
    /\ budget = MaxRacePins
    /\ tasks = [t \in Tasks |-> Idle]
    /\ strays = <<>>
    /\ hist = NoCall

CallRace(t) ==
    \/ Quiet /\ Slot(t) /\ \E type \in ItemTypes, owner \in Owners :
                               CreateItem(t, 1, type, owner)
    \/ \E h \in HashArgs : AddItemData(t, 1, h, "a", d1, FALSE)

BackendRace(t) ==
    \/ CreateItemPin(t)
    \/ AddItemDataGetItem(t)
    \/ RemoveItemDataList(t)
    \/ RemoveItemDataUnpin(t)
    \/ AddItemDataPin(t)
    \/ BackendRejects(t)

NextRace ==
    \/ \E t \in Tasks : CallRace(t)
    \/ \E t \in Tasks : BackendRace(t)
    \/ \E t \in Tasks : Await(t)

SpecRace == InitRace /\ [][NextRace]_vars

\* One tenant listing its items with a predicate on the owner given in every
\* form a caller's keyvalues entry can take: bare scalars and {value, op}
\* objects, with and without op, with truthy and with falsy values.
FormArgs ==
    {Bare("o"), Bare(NULL), Bare("#0"), Pair("o", "ne"), Pair("o", NULL),
     Pair(NULL, "ne"), Pair("#0", "ne"), Pair("#false", "eq")}

KeyvalueFormArgs == {[sub_owner |-> x] : x \in FormArgs}

CallQuery(t) ==
    \/ \E type \in ItemTypes, owner \in OwnerArgs : CreateItem(t, 1, type, owner)
    \/ \E type \in ItemTypes, kv \in KeyvalueFormArgs :
           GetItems(t, 1, type, 1, DefaultLimit, kv, NULL)

BackendQuery(t) ==
    \/ CreateItemPin(t)
    \/ GetItemsList(t)
    \/ BackendRejects(t)

NextQuery ==
    \/ \E t \in Tasks : Quiet /\ Slot(t) /\ CallQuery(t)
    \/ \E t \in Tasks : BackendQuery(t)
    \/ \E t \in Tasks : Await(t)

SpecQuery == InitItems /\ [][NextQuery]_vars

\* Two tenants adding data records whose data and keyvalues carry entries
\* named like the layer's own tags, with and without a search term, against a
\* backend that takes MaxTagPins records: what addItemData stores.
MaxTagPins == 3

\* addItemData arguments: data and keyvalues with entries named sub_id,
\* sub_client and sub_date, and a search term
dSub == [plain |-> TRUE,
         obj |-> [v |-> "x", sub_id |-> "Qm9/z", sub_client |-> "cX", sub_date |-> "t99"]]
kvSub == [tag |-> "k", sub_id |-> "Qm9/z", sub_client |-> "cX", sub_date |-> "t99"]
SearchArgs == {NULL, "s"}

InitTags ==
    /\ facade = [f \in Facades |-> IF f = 1 THEN Built(ClientOf(1), 1) ELSE NoFacade]
    /\ substrate = [s \in Strategies |-> IF s = 1 THEN 1 ELSE 0]
    /\ pins = <<>>
    /\ budget = MaxTagPins
    /\ tasks = [t \in Tasks |-> Idle]
    /\ strays = <<>>
    /\ hist = NoCall

CallTags(t) ==
    \E f \in Facades :
        \/ \E type \in ItemTypes, owner \in Owners : CreateItem(t, f, type, owner)
        \/ \E h \in HashArgs, data \in {d1, dSub}, keep \in BOOLEAN,
              kv \in {EmptyObj, kvSub}, search \in SearchArgs :
               AddItemDataWith(t, f, h, "a", data, keep, kv, search)
        \/ \E h \in HashArgs : GetItemData(t, f, h, "a", TRUE)

BackendTags(t) ==
    \/ CreateItemPin(t)
    \/ AddItemDataGetItem(t)
    \/ RemoveItemDataList(t)
    \/ RemoveItemDataUnpin(t)
    \/ AddItemDataPin(t)
    \/ GetItemDataList(t)
    \/ GetItemDataFetch(t)
    \/ BackendRejects(t)

NextTags ==
    \/ \E f \in Facades : NewSubstrate(f, f)
    \/ \E t \in Tasks : Quiet /\ Slot(t) /\ CallTags(t)
    \/ \E t \in Tasks : BackendTags(t)
    \/ \E t \in Tasks : Await(t)

SpecTags == InitTags /\ [][NextTags]_vars

---------------------------------------------------------------------------
(* Claims                                                                  *)

\* the live data records carrying the key (itemHash, type), of any tenant
LiveOfSubId(itemHash, type) ==
    {n \in Live : /\ "sub_id" \in DOMAIN pins[n].keyvalues
                  /\ pins[n].keyvalues["sub_id"] = itemHash \o "/" \o type}

\* the body of record n holds the caller's data
BodyHolds(n, data) ==
    \A k \in DOMAIN data.obj : k \in DOMAIN pins[n].body /\ pins[n].body[k] = data.obj[k]

\* task t has settled a call of method op that returned
Returned(t, op) ==
    tasks[t].pc = "settled" /\ tasks[t].op = op /\ tasks[t].result.kind # "error"

\* task t has settled the second of two addItemData calls with keep=false on
\* one key, which had no live record when the first started; both returned
SecondAdd(t) ==
    /\ Returned(t, "addItemData") /\ ~tasks[t].keep
    /\ tasks[t].first.again /\ tasks[t].first.had = 0

\* C1: after two addItemData calls with the same (itemHash, type) and
\* keep=false, run one after the other on a key that had no live record,
\* exactly one live data record exists for the key, and its body is the data
\* of the second call.
C1_Uniqueness ==
    \A t \in Tasks :
        SecondAdd(t) =>
            \E n \in Live :
                /\ LiveOfSubId(tasks[t].itemHash, tasks[t].type) = {n}
                /\ HashOf(n) = tasks[t].wrote
                /\ BodyHolds(n, tasks[t].data)

C1_Witness ==
    \E t \in Tasks :
        /\ SecondAdd(t)
        /\ tasks[t].data = d2
        /\ tasks[t].first.wrote # NULL /\ tasks[t].first.wrote # tasks[t].wrote
        /\ \E n \in Live : HashOf(n) = tasks[t].wrote /\ pins[n].body["v"] = "y"

\* C2: getItem, getItems and getItemData called through one Facade never
\* return an item or a data record that was created through the other Facade.
C2_TenantIsolation ==
    \A t \in Tasks :
        (\/ Returned(t, "getItem") \/ Returned(t, "getItems")
         \/ Returned(t, "getItemData"))
            => tasks[t].result.from \subseteq {tasks[t].f}

\* the live item root records of a tenant with the hash itemHash
ItemOf(client, itemHash) ==
    {n \in Live : /\ HashOf(n) = itemHash
                  /\ "sub_item" \in DOMAIN pins[n].keyvalues
                  /\ pins[n].keyvalues["sub_client"] = client}

\* the types of the list that have a live record for the item of task t
TypesWithRecord(t) ==
    {tasks[t].dataTypes[i] : i \in 1..Len(tasks[t].dataTypes)}
        \cap {ty \in DataTypes :
                LiveOfKey(facade[tasks[t].f].client, tasks[t].itemHash, ty) # {}}

\* task t has settled a call of method op in which no backend call was rejected
Answered(t, op) ==
    tasks[t].pc = "settled" /\ tasks[t].op = op /\ tasks[t].result.msg # "backend"

\* C3: indexItem called for a live item with a list of types of which only
\* some have a live record completes successfully and stores an index whose
\* mapping contains exactly the types that have a live record.
C3_IndexOmitsMissing ==
    \A t \in Tasks :
        (/\ Answered(t, "indexItem")
         /\ ItemOf(facade[tasks[t].f].client, tasks[t].itemHash) # {}
         /\ TypesWithRecord(t) # {}
         /\ \E i \in 1..Len(tasks[t].dataTypes) :
                tasks[t].dataTypes[i] \notin TypesWithRecord(t))
            => /\ tasks[t].result.kind # "error"
               /\ \E n \in Live :
                    /\ HashOf(n) = tasks[t].wrote
                    /\ DOMAIN pins[n].body \cap DataTypes = TypesWithRecord(t)

\* the live data records of an item, of whatever type
DataOfItem(itemHash) ==
    UNION {LiveOfSubId(itemHash, ty) : ty \in DataTypes \cup {INDEX}}

\* C4: removeItem called with dataTypes omitted removes the item root record
\* and leaves zero live data records belonging to that item.
C4_CascadingRemoval ==
    \A t \in Tasks :
        (Returned(t, "removeItem") /\ tasks[t].dataTypes = NoTypes)
            => /\ ~CanUnpin(tasks[t].itemHash)
               /\ DataOfItem(tasks[t].itemHash) = {}

\* C5: removeItem called with a list of dataTypes removes the item root record
\* and every live data record of the item whose type is in the list, and
\* leaves every data record of any other type live.
C5_ListedRemoval ==
    \A t \in Tasks :
        (Returned(t, "removeItem") /\ tasks[t].dataTypes # NoTypes)
            => /\ ~CanUnpin(tasks[t].itemHash)
               /\ \A i \in 1..Len(tasks[t].dataTypes) :
                    LiveOfSubId(tasks[t].itemHash, tasks[t].dataTypes[i]) = {}
               /\ \A n \in tasks[t].pre :
                    (/\ HashOf(n) # tasks[t].itemHash
                     /\ \A i \in 1..Len(tasks[t].dataTypes) :
                            pins[n].name # tasks[t].itemHash \o "/" \o tasks[t].dataTypes[i])
                        => n \in Live

\* C6: removeItemData called twice in sequence for a key that has a live
\* record returns true on the first call and false on the second call, and the
\* second call does not throw.
C6_RemoveTwice ==
    \A t \in Tasks :
        (/\ Answered(t, "removeItemData")
         /\ tasks[t].first.again /\ tasks[t].first.had > 0)
            => /\ tasks[t].first.flag
               /\ tasks[t].result.kind = "bool" /\ ~tasks[t].result.flag

\* C7: addItemData called with data that is not a plain object fails, and
\* every record that was live before the call is still live afterwards.
C7_ValidationFirst ==
    \A t \in Tasks :
        (Answered(t, "addItemData") /\ ~IsPlainObject(tasks[t].data))
            => /\ tasks[t].result.kind = "error"
               /\ Live = tasks[t].pre

\* task t has settled an addItemData for an itemHash that matches no live item
\* of the calling tenant
AddToMissing(t) ==
    /\ tasks[t].pc = "settled" /\ tasks[t].op = "addItemData"
    /\ ItemOf(facade[tasks[t].f].client, tasks[t].itemHash) = {}

\* C8: addItemData for an itemHash that matches no live item of the calling
\* tenant fails with an error and leaves the store unchanged: no data record is
\* created and no existing record is removed.
C8_MissingItem ==
    \A t \in Tasks :
        AddToMissing(t) =>
            /\ tasks[t].result.kind = "error"
            /\ tasks[t].wrote = NULL
            /\ Live = tasks[t].pre

C8_Witness ==
    \E t \in Tasks :
        /\ AddToMissing(t)
        /\ tasks[t].result.msg = "Item not found"
        /\ IsPlainObject(tasks[t].data)
        /\ \E n \in Live : pins[n].by # tasks[t].f /\ HashOf(n) = tasks[t].itemHash
        /\ Live = tasks[t].pre

\* C9: indexItem returns the resolved record of the index it has just stored:
\* a defined result whose hash is that of the new live index record of the item
\* and whose mapping equals the one that was written.
C9_IndexResult ==
    \A t \in Tasks :
        Returned(t, "indexItem") =>
            /\ tasks[t].result.kind = "data"
            /\ tasks[t].result.hash = tasks[t].wrote
            /\ \A ty \in DOMAIN tasks[t].index :
                    /\ ty \in DOMAIN tasks[t].result.obj
                    /\ tasks[t].result.obj[ty] = tasks[t].index[ty]

\* indexItem of task t is past its join: at addItemData or at the final lookup
PastJoin(t) ==
    /\ tasks[t].op = "indexItem"
    /\ tasks[t].pc \in {"aid_getItem", "rid_list", "rid_unpin", "aid_pin",
                        "gid_list", "gid_fetch"}

\* a lookup of the indexItem of task t has rejected
LookupRejected(t) ==
    /\ tasks[t].op = "indexItem" /\ tasks[t].pc = "settled"
    /\ \E i \in 1..Len(tasks[t].subs) : tasks[t].subs[i].pc \in {"failed", "threw"}

\* C10: indexItem issues the write of the index record only after every
\* per-type lookup has completed; if a lookup rejects, indexItem rejects, no
\* new index record is written and the index stored before stays live.
C10_HardJoin ==
    \A t \in Tasks :
        /\ PastJoin(t) => \A i \in 1..Len(tasks[t].subs) : tasks[t].subs[i].pc = "done"
        /\ (tasks[t].op = "indexItem" /\ tasks[t].wrote # NULL)
                => \A i \in 1..Len(tasks[t].subs) : tasks[t].subs[i].pc = "done"
        /\ LookupRejected(t) =>
                /\ tasks[t].result.kind = "error"
                /\ tasks[t].wrote = NULL
                /\ Live = tasks[t].pre

C10_Witness ==
    \E t \in Tasks :
        /\ LookupRejected(t)
        /\ \E i \in 1..Len(tasks[t].subs) : tasks[t].subs[i].pc = "done"
        /\ LiveOfSubId(tasks[t].itemHash, INDEX) # {}

\* task t has settled the second of two indexItem calls made one after the
\* other for one item with one list of types; both returned
SecondIndex(t) == Returned(t, "indexItem") /\ tasks[t].first.again

\* C11: after indexItem is called twice in sequence for the same item, exactly
\* one live data record of type 'index' exists for that item and it is the one
\* written by the second call.
C11_ReindexReplaces ==
    \A t \in Tasks :
        SecondIndex(t) =>
            \E n \in Live :
                /\ LiveOfSubId(tasks[t].itemHash, INDEX) = {n}
                /\ HashOf(n) = tasks[t].wrote

C11_Witness ==
    \E t \in Tasks :
        /\ SecondIndex(t)
        /\ tasks[t].first.wrote \notin {NULL, tasks[t].wrote}
        /\ ~CanUnpin(tasks[t].first.wrote)
        /\ \E n \in Live : HashOf(n) = tasks[t].wrote /\ "a" \in DOMAIN pins[n].body

\* C12: an addItemData call with keep=false that completes, after any
\* sequential history of addItemData and removeItemData calls, leaves exactly
\* one live record for its key: every record of the key that was live before
\* the call has been removed.
C12_AtMostOne ==
    \A t \in Tasks :
        (Returned(t, "addItemData") /\ ~tasks[t].keep) =>
            \E n \in Live :
                /\ LiveOfSubId(tasks[t].itemHash, tasks[t].type) = {n}
                /\ HashOf(n) = tasks[t].wrote

\* the key/values of the live record with the hash, as the backend holds them
MetadataOf(hash) == pins[CHOOSE n \in Live : HashOf(n) = hash].keyvalues

\* C13: updateItemMetadata with overwrite=false yields the item's existing
\* key/values with the supplied ones merged on top; with overwrite=true the
\* metadata becomes exactly the supplied key/values.
C13_MetadataMerge ==
    \A t \in Tasks :
        Returned(t, "updateItemMetadata") =>
            MetadataOf(tasks[t].itemHash) =
                IF tasks[t].overwrite THEN tasks[t].kvs
                ELSE Spread(tasks[t].sub, tasks[t].kvs)

\* the half of C13 about overwrite=false
C13_MergeOnly ==
    \A t \in Tasks :
        (Returned(t, "updateItemMetadata") /\ ~tasks[t].overwrite) =>
            MetadataOf(tasks[t].itemHash) = Spread(tasks[t].sub, tasks[t].kvs)

\* the live record of hash itemHash, pinned by a createItem call made through
\* the Facade f
CreatedBy(f, itemHash) ==
    {n \in Live : HashOf(n) = itemHash /\ pins[n].by = f /\ "sub_item" \in DOMAIN pins[n].body}

\* task t has settled a getItem call (resolve=true) the backend answered, for
\* a hash that createItem returned through the same Facade for a type of
\* letters, digits and underscore, the record not removed since
ReadBack(t) ==
    /\ Answered(t, "getItem") /\ tasks[t].resolve
    /\ \E n \in CreatedBy(tasks[t].f, tasks[t].itemHash) : ~ParseTypeThrows(pins[n].type)

\* C14: getItem through the same Facade with the hash createItem returned, the
\* item not removed in between, returns a non-null record whose type (the part
\* of its sub_item tag before the colon), owner and client are the type and
\* the owner passed to createItem and the client of the Facade.
C14_RoundTrip ==
    \A t \in Tasks :
        ReadBack(t) =>
            \A n \in CreatedBy(tasks[t].f, tasks[t].itemHash) :
                LET item == tasks[t].result
                IN  /\ item.kind = "item"
                    /\ item.hash = tasks[t].itemHash
                    /\ {"sub_item", "sub_owner", "sub_client"} \subseteq DOMAIN item.obj
                    /\ Before(item.obj["sub_item"], ":") = pins[n].type
                    /\ item.obj["sub_owner"] = pins[n].owner
                    /\ item.obj["sub_client"] = facade[tasks[t].f].client

C14_Witness ==
    \E t \in Tasks :
        /\ ReadBack(t) /\ tasks[t].f = 2
        /\ \E n \in CreatedBy(2, tasks[t].itemHash) :
               pins[n].type = "T_1" /\ pins[n].owner = "p"
        /\ tasks[t].result.kind = "item"
        /\ \E m \in Live : pins[m].by = 1

\* C15: createItem called with a type that is not a non-empty string of
\* letters, digits and underscore fails with a validation error and stores no
\* item record.
C15_TypeValidated ==
    \A t \in Tasks :
        (/\ tasks[t].pc = "settled" /\ tasks[t].op = "createItem"
         /\ ParseTypeThrows(tasks[t].type)) =>
            /\ tasks[t].result.kind = "error"
            /\ tasks[t].result.msg # "backend"
            /\ Live = tasks[t].pre

\* task t has settled a getItems call
Listed(t) == tasks[t].pc = "settled" /\ tasks[t].op = "getItems"

\* what getItems returns for the rows of a query on the store as it is
ItemsOf(query) ==
    LET rows == PinList(query) IN [i \in 1..Len(rows) |-> ParseItem(rows[i])]

\* C16, as stated: getItems with a page below 1 and/or a limit below 1 is not
\* rejected, issues the query of page 1 and limit 10 (offset 0, limit 10) and
\* returns what getItems with page 1 and limit 10 returns on the same store.
C16_SameAsDefaults ==
    \A t \in Tasks :
        (Listed(t) /\ (tasks[t].page < 1 \/ tasks[t].limit < 1)) =>
            LET fr == tasks[t]
                q == GetItemsQuery(fr.s, fr.type, 1, DefaultLimit, fr.kvs, fr.owner)
            IN  /\ fr.result.msg \in {NULL, "backend"}
                /\ fr.query.offset = 0 /\ fr.query.limit = DefaultLimit
                /\ fr.query = q
                /\ fr.result.kind = "list" => fr.result.list = ItemsOf(q)

\* C16, amended: getItems is never rejected for its page or limit; a page
\* below 1 counts as page 1 and a limit below 1 as limit 10, each on its own,
\* so that with both below 1 the query (offset 0, limit 10) and the result are
\* those of page 1 and limit 10 on the same store.
C16_Clamped ==
    \A t \in Tasks :
        Listed(t) =>
            LET fr == tasks[t]
                page == IF fr.page < 1 THEN 1 ELSE fr.page
                limit == IF fr.limit < 1 THEN DefaultLimit ELSE fr.limit
                q == GetItemsQuery(fr.s, fr.type, page, limit, fr.kvs, fr.owner)
            IN  /\ fr.result.msg \in {NULL, "backend"}
                /\ fr.query.limit = limit /\ fr.query.offset = (page - 1) * limit
                /\ (fr.page < 1 /\ fr.limit < 1) =>
                       fr.query.offset = 0 /\ fr.query.limit = DefaultLimit
                /\ fr.query = q
                /\ fr.result.kind = "list" => fr.result.list = ItemsOf(q)

C16_Witness ==
    \E t \in Tasks :
        /\ Listed(t) /\ tasks[t].page < 1 /\ tasks[t].limit < 1
        /\ tasks[t].result.kind = "list" /\ Len(tasks[t].result.list) = 2
        /\ tasks[t].query.limit = DefaultLimit

\* task t has settled a call of method op the backend answered, for an item
\* hash that was the hash of no live record when the call started
AbsentTarget(t, op) ==
    /\ Answered(t, op)
    /\ \A n \in tasks[t].pre : HashOf(n) # tasks[t].itemHash

\* C17: removeItem and updateItemMetadata called for an item hash that matches
\* no live item report the absence as a value, they do not throw.
C17_AbsenceIsValue ==
    \A t \in Tasks :
        (AbsentTarget(t, "removeItem") \/ AbsentTarget(t, "updateItemMetadata")) =>
            tasks[t].result.kind # "error"

\* C17, removeItem alone
C17_RemoveItem ==
    \A t \in Tasks : AbsentTarget(t, "removeItem") => tasks[t].result.kind # "error"

\* C17, updateItemMetadata alone
C17_UpdateItemMetadata ==
    \A t \in Tasks :
        AbsentTarget(t, "updateItemMetadata") => tasks[t].result.kind # "error"

\* C17, the operations the claim compares with: getItem answers null
C17_GetItemNull ==
    \A t \in Tasks : AbsentTarget(t, "getItem") => tasks[t].result.kind = "null"

\* task t has settled a removeItemData call the backend answered, for a key
\* of which the tenant had no live record when the call started
RemoveOfNothing(t) ==
    Answered(t, "removeItemData") /\ tasks[t].had = 0

Queries(t) ==
    /\ tasks[t].op \in {"getItems", "getItem", "getItemData"}
    /\ tasks[t].query # NoQuery

\* C19: whatever keyvalues the caller passes to getItems, entries named
\* sub_client or sub_item included, the query of getItems carries the
\* predicate sub_client = the client of the Facade with op 'eq', and so do
\* the queries of getItem and getItemData.
C19_ClientPredicate ==
    \A t \in Tasks :
        Queries(t) =>
            /\ "sub_client" \in DOMAIN tasks[t].query.keyvalues
            /\ tasks[t].query.keyvalues["sub_client"] = Eq(facade[tasks[t].f].client)

C19_Witness ==
    \E t \in Tasks :
        /\ Listed(t) /\ tasks[t].f = 1
        /\ "sub_client" \in DOMAIN tasks[t].kvs /\ tasks[t].kvs["sub_client"] = Bare(ClientOf(2))
        /\ tasks[t].result.kind = "list" /\ Len(tasks[t].result.list) > 0
        /\ tasks[t].result.from = {1}
        /\ \E n \in Live : pins[n].by = 2

\* the live records pinned by createItem: their content holds the tags the
\* item was created with
Items == {n \in Live : "sub_item" \in DOMAIN pins[n].body}

\* C20: in every state an item's createdAt tag (sub_date) is the value
\* createItem set; no updateItemMetadata call, merging or overwriting, changes
\* or removes it.
C20_CreatedAtKept ==
    \A n \in Items :
        /\ "sub_date" \in DOMAIN pins[n].keyvalues
        /\ pins[n].keyvalues["sub_date"] = pins[n].body["sub_date"]

\* C20, for the calls that do not name the tag: updateItemMetadata with
\* keyvalues that have no sub_date entry leaves the tag as createItem set it
C20_KeptWhenNotNamed ==
    [][\A t \in Tasks :
          (tasks[t].pc = "uim_meta" /\ "sub_date" \notin DOMAIN tasks[t].kvs) =>
              \A n \in Items :
                  (/\ "sub_date" \in DOMAIN pins[n].keyvalues
                   /\ pins[n].keyvalues["sub_date"] = pins[n].body["sub_date"]) =>
                      /\ "sub_date" \in DOMAIN pins'[n].keyvalues
                      /\ pins'[n].keyvalues["sub_date"] = pins[n].body["sub_date"]]_vars

\* task t is in, or has settled, a getItem call made without an itemHash
GetWithoutHash(t) ==
    tasks[t].pc # "idle" /\ tasks[t].op = "getItem" /\ ~Truthy(tasks[t].itemHash)

\* C21: getItem called without an itemHash throws its validation error, with
\* no query issued to the backend; it does not return null.
C21_HashRequired ==
    \A t \in Tasks :
        GetWithoutHash(t) =>
            /\ tasks[t].pc = "settled"
            /\ tasks[t].result.kind = "error"
            /\ tasks[t].result.msg = "itemHash is required in getItem"
            /\ tasks[t].query = NoQuery

C21_Witness ==
    \E t \in Tasks :
        /\ GetWithoutHash(t) /\ tasks[t].pc = "settled"
        /\ \E n \in Live : pins[n].by = tasks[t].f

\* the last attempt to construct the Facade f failed
ConstructionFailed(f) == facade[f].threw # NULL

\* C22: constructing a Facade without a client or without a storage strategy
\* fails with an error: no Facade is produced, and no strategy has its
\* substrate back-reference set to it.
C22_ConstructorValidates ==
    \A f \in Facades :
        ConstructionFailed(f) =>
            /\ facade[f].storageStrategy = 0 /\ facade[f].client = NULL
            /\ \A s \in Strategies : substrate[s] # f

\* C22, as a step: a construction without a client or without a strategy
\* raises its error and changes no back-reference
C22_FailedStep ==
    [][\A f \in Facades, s \in Strategies \cup {0} : \A client \in {NULL, ClientOf(f)} :
          (Constructor(f, client, s) /\ (client = NULL \/ s = 0)) =>
              /\ facade'[f].threw # NULL
              /\ facade'[f].storageStrategy = 0
              /\ substrate' = substrate]_vars

C22_Witness ==
    \E f, g \in Facades :
        /\ facade[f].threw = "Storage strategy is required"
        /\ facade[g].storageStrategy # 0
        /\ \E n \in Live : pins[n].by = g

\* the place in the store of the record of hash h
IndexOf(h) == CHOOSE n \in 1..Len(pins) : HashOf(n) = h

\* the two tasks have each settled an addItemData call (keep=false) on one
\* key, both calls returned, and the calls ran concurrently: each had started
\* before the record of the other was pinned
BothAdded ==
    /\ \A t \in Tasks : Returned(t, "addItemData") /\ ~tasks[t].keep
    /\ tasks[1].itemHash = tasks[2].itemHash /\ tasks[1].type = tasks[2].type
    /\ IndexOf(tasks[1].wrote) > tasks[2].at
    /\ IndexOf(tasks[2].wrote) > tasks[1].at

\* the record pinned last by the two calls
LastPinned ==
    IF IndexOf(tasks[1].wrote) > IndexOf(tasks[2].wrote)
    THEN IndexOf(tasks[1].wrote) ELSE IndexOf(tasks[2].wrote)

\* C23: when two concurrent addItemData calls (keep=false) on one key have
\* both completed, the record of the pin the backend applied last is live: the
\* other call has not removed it, however the backend calls interleaved.
C23_LastWriteWins ==
    BothAdded =>
        /\ LastPinned \in LiveOfKey(facade[tasks[1].f].client, tasks[1].itemHash,
                                    tasks[1].type)
        /\ \A t \in Tasks : tasks[t].target # HashOf(LastPinned)

\* both calls made their removal before either made its pin, and the other
\* call has removed the record of the first
C23_Witness ==
    /\ BothAdded
    /\ \E t, u \in Tasks :
          /\ tasks[t].target # NULL /\ tasks[u].target = tasks[t].wrote
          /\ ~pins[IndexOf(tasks[t].wrote)].pinned
    /\ pins[LastPinned].pinned

\* both calls listed the records of the key before either pinned its own:
\* the key had no record when they started and neither found one to remove
BothListedFirst ==
    /\ BothAdded
    /\ \A t \in Tasks : tasks[t].had = 0 /\ tasks[t].target = NULL

\* C24: remove-then-create is not atomic. In the interleaving of two
\* concurrent addItemData calls (keep=false) on one key in which both list the
\* key before either pins, both calls complete and two live records exist for
\* the key.
C24_NotAtomic ==
    BothListedFirst =>
        /\ LiveOfKey(facade[tasks[1].f].client, tasks[1].itemHash, tasks[1].type)
               = {IndexOf(tasks[1].wrote), IndexOf(tasks[2].wrote)}
        /\ tasks[1].wrote # tasks[2].wrote

C24_Witness ==
    /\ BothListedFirst
    /\ Cardinality(LiveOfKey(facade[tasks[1].f].client, tasks[1].itemHash,
                             tasks[1].type)) = 2

\* task t is in a removeItem call that has launched its per-type removals
Cascading(t) ==
    tasks[t].pc # "idle" /\ tasks[t].op = "removeItem" /\ Len(tasks[t].subs) > 0

\* a record of the store that is pinned no more
Removed(hash) == \E n \in 1..Len(pins) : HashOf(n) = hash /\ ~pins[n].pinned

\* C25: removeItem with a list of dataTypes launches one removal per type
\* before it awaits any; when one of them rejects, removeItem rejects with
\* that failure, and the item root record and every data record whose unpin
\* succeeded are removed still.
C25_NoRollback ==
    \A t \in Tasks :
        Cascading(t) =>
            LET fr == tasks[t]
            IN  /\ Len(fr.subs) = Len(fr.dataTypes)
                /\ Removed(fr.itemHash)
                /\ \A i \in 1..Len(fr.subs) :
                       /\ fr.subs[i].pc = "failed" =>
                              fr.pc = "settled" /\ fr.result = Threw("backend")
                       /\ (fr.subs[i].pc = "done" /\ fr.subs[i].target # NULL) =>
                              Removed(fr.subs[i].target)

\* C25, the store: a record once removed is never live again
C25_StaysRemoved ==
    [][\A n \in 1..Len(pins) : ~pins[n].pinned => ~pins'[n].pinned]_vars

C25_Witness ==
    \E t \in Tasks :
        /\ Cascading(t) /\ tasks[t].pc = "settled" /\ tasks[t].result.kind = "error"
        /\ Len(tasks[t].subs) = 2
        /\ tasks[t].subs[1].pc = "failed"
        /\ tasks[t].subs[2].pc = "done" /\ tasks[t].subs[2].target # NULL
        /\ Removed(tasks[t].subs[2].target)

\* the records task t's getItems call returned
ListedRecords(t) ==
    {IndexOf(tasks[t].result.list[i].hash) : i \in 1..Len(tasks[t].result.list)}

\* C26: getItems called with type T returns only live item records of the
\* calling tenant that were created with exactly the type T: no item created
\* with another type is returned, one whose type has T as a proper prefix
\* included.
C26_ExactType ==
    \A t \in Tasks :
        (Listed(t) /\ tasks[t].result.kind = "list") =>
            \A n \in ListedRecords(t) :
                /\ n \in Items
                /\ pins[n].by = tasks[t].f
                /\ pins[n].type = tasks[t].type

\* C26, for the items whose type is of letters, digits and underscore: they
\* are returned for their own type only
C26_ValidTypes ==
    \A t \in Tasks :
        (Listed(t) /\ tasks[t].result.kind = "list") =>
            \A n \in ListedRecords(t) :
                ~ParseTypeThrows(pins[n].type) => pins[n].type = tasks[t].type

\* an item of type T_1 is live when type T is listed; it is not returned
C26_PrefixCase ==
    \E t \in Tasks :
        /\ Listed(t) /\ tasks[t].result.kind = "list" /\ tasks[t].type = "T"
        /\ \E n \in Items : pins[n].type = "T_1" /\ pins[n].by = tasks[t].f
        /\ tasks[t].kvs = EmptyObj /\ tasks[t].owner = NULL

\* the entries of the caller's keyvalues that the layer's own predicates do
\* not replace in the query
CallerKeys(fr) ==
    (DOMAIN fr.kvs) \ ({"sub_client", "sub_item"}
                        \cup (IF Truthy(fr.owner) THEN {"sub_owner"} ELSE {}))

\* C27: getItems translates every caller-supplied entry to a predicate: a
\* bare scalar v to {value: v, op: 'eq'}, an explicit {value, op} object to
\* the same value and op (op 'eq' when it has none), for every value, 0, false
\* and the empty string included.
C27_Conversion ==
    \A t \in Tasks :
        (tasks[t].op = "getItems" /\ tasks[t].query # NoQuery) =>
            \A k \in CallerKeys(tasks[t]) :
                LET x == tasks[t].kvs[k]
                    pred == tasks[t].query.keyvalues[k]
                IN  /\ pred.value = x.value
                    /\ pred.op = IF x.pair /\ Truthy(x.op) THEN x.op ELSE "eq"

\* C27, for bare scalars and for objects whose value is truthy
C27_TruthyValues ==
    \A t \in Tasks :
        (tasks[t].op = "getItems" /\ tasks[t].query # NoQuery) =>
            \A k \in CallerKeys(tasks[t]) :
                LET x == tasks[t].kvs[k]
                    pred == tasks[t].query.keyvalues[k]
                IN  (~x.pair \/ JsTruthy(x.value)) =>
                        /\ pred.value = x.value
                        /\ pred.op = IF x.pair /\ Truthy(x.op) THEN x.op ELSE "eq"

\* the mapping stored in the index record n: its body without the tags that
\* addItemData adds to every body
MappingOf(n) ==
    [k \in (DOMAIN pins[n].body) \ {"sub_id", "sub_date", "sub_client"} |-> pins[n].body[k]]

\* C28: when indexItem has completed, every content hash in the index mapping
\* it stored is the hash of a live data record of the item, of the type it is
\* filed under, for every dataTypes list, one that contains 'index' included.
C28_IndexIsCurrent ==
    \A t \in Tasks :
        Returned(t, "indexItem") =>
            LET m == MappingOf(IndexOf(tasks[t].wrote))
            IN  \A k \in DOMAIN m :
                    \E n \in LiveOfSubId(tasks[t].itemHash, k) : HashOf(n) = m[k]

\* C28, for the lists without the type 'index'
C28_DataTypesOnly ==
    \A t \in Tasks :
        (Returned(t, "indexItem")
         /\ \A i \in 1..Len(tasks[t].dataTypes) : tasks[t].dataTypes[i] # INDEX) =>
            LET m == MappingOf(IndexOf(tasks[t].wrote))
            IN  /\ DOMAIN m # {}
                /\ \A k \in DOMAIN m :
                       \E n \in LiveOfSubId(tasks[t].itemHash, k) : HashOf(n) = m[k]

\* the client task t's call works under: the one its query filters by, the one
\* it tags the record it creates with
ClientsUsed(t) ==
    LET fr == tasks[t]
    IN  (IF "sub_client" \in DOMAIN fr.query.keyvalues
         THEN {fr.query.keyvalues["sub_client"].value} ELSE {})
        \cup (IF "sub_client" \in DOMAIN fr.sub THEN {fr.sub["sub_client"]} ELSE {})
        \cup (IF "sub_client" \in DOMAIN fr.pinreq.keyvalues
              THEN {fr.pinreq.keyvalues["sub_client"]} ELSE {})

\* C29: every createItem, getItem, getItems, addItemData and getItemData call
\* of a Facade tags and filters records with the client that Facade was
\* constructed with, also after another Facade with another client has been
\* constructed around the same strategy instance.
C29_OwnClient ==
    \A t \in Tasks :
        (/\ tasks[t].pc # "idle"
         /\ tasks[t].op \in {"createItem", "getItem", "getItems", "addItemData",
                             "getItemData"}) =>
            ClientsUsed(t) \subseteq {facade[tasks[t].f].client}

\* task t has settled a getItem call the backend answered, made with the
\* content hash of a live data record of the calling tenant
GetOfDataRecord(t) ==
    /\ Answered(t, "getItem")
    /\ \E n \in Live : /\ HashOf(n) = tasks[t].itemHash
                       /\ "sub_id" \in DOMAIN pins[n].keyvalues
                       /\ pins[n].by = tasks[t].f

\* C30: item lookups return only item root records. getItem given the content
\* hash of a live data record of the tenant returns nothing (null, or the
\* undefined of a row that does not parse), with resolve true and with
\* resolve false, and getItems never includes a data record.
C30_ItemsOnly ==
    \A t \in Tasks :
        /\ GetOfDataRecord(t) => tasks[t].result.kind \in {"null", "undefined"}
        /\ (Listed(t) /\ tasks[t].result.kind = "list") =>
               \A n \in ListedRecords(t) : "sub_id" \notin DOMAIN pins[n].keyvalues

\* C30, getItem with resolve true: the data record is not returned as an item
C30_Resolved ==
    \A t \in Tasks :
        (GetOfDataRecord(t) /\ tasks[t].resolve) =>
            tasks[t].result.kind \in {"null", "undefined"}

\* C30, getItems: no data record is listed
C30_Listing ==
    \A t \in Tasks :
        (Listed(t) /\ tasks[t].result.kind = "list") =>
            \A n \in ListedRecords(t) : "sub_id" \notin DOMAIN pins[n].keyvalues

---------------------------------------------------------------------------
(* C31: the linkage tags of a data record are the layer's                  *)

\* the record a settled or running addItemData call of task t has stored
Stored(t) ==
    {n \in Live : /\ tasks[t].op = "addItemData"
                  /\ tasks[t].wrote = HashOf(n)}

\* C31: every data record that addItemData has stored carries, in its metadata
\* and in its body, sub_id = '{itemHash}/{type}' of the call, sub_client = the
\* client of the Facade that was called and the sub_date the call has read,
\* whatever the caller's data and keyvalues name; the caller's other entries
\* and the search term are stored with them.
C31_TagsAreTheLayers ==
    \A t \in Tasks : \A n \in Stored(t) :
        LET fr == tasks[t]
            sub_id == fr.itemHash \o "/" \o fr.type
        IN  /\ pins[n].name = sub_id
            /\ pins[n].keyvalues["sub_id"] = sub_id
            /\ pins[n].body["sub_id"] = sub_id
            /\ pins[n].keyvalues["sub_client"] = facade[fr.f].client
            /\ pins[n].body["sub_client"] = facade[fr.f].client
            /\ pins[n].keyvalues["sub_date"] = fr.sub.sub_date
            /\ pins[n].body["sub_date"] = fr.sub.sub_date
            /\ \A k \in (DOMAIN fr.kvs) \ (DOMAIN fr.sub) :
                   pins[n].keyvalues[k] = fr.kvs[k]
            /\ Truthy(fr.search) => pins[n].keyvalues["search"] = fr.search

\* a record stored for a caller that named the three tags in both its data
\* and its keyvalues, and gave a search term
C31_Witness ==
    \E t \in Tasks : \E n \in Stored(t) :
        /\ tasks[t].kvs = kvSub
        /\ tasks[t].data = dSub
        /\ tasks[t].search = "s"
        /\ tasks[t].f = 2
        /\ pins[n].keyvalues["sub_client"] = ClientOf(2)
        /\ pins[n].keyvalues["tag"] = "k"

---------------------------------------------------------------------------
(* C32: removeItem invoked again after its cascade was rejected            *)

\* task t has settled, with no backend call rejected, the removeItem call its
\* caller made again with the same arguments after the first one had rejected
\* because a per-type removal failed
RetriedCascade(t) ==
    Answered(t, "removeItem") /\ tasks[t].first.again

\* C32: removeItem invoked again with the same arguments, after it has
\* rejected because one per-type data removal failed, does not fail: it
\* completes the cascade, and no data record of the listed types is live then.
C32_RetryCompletes ==
    \A t \in Tasks :
        RetriedCascade(t) =>
            /\ tasks[t].result.kind # "error"
            /\ \A i \in 1..Len(tasks[t].dataTypes) :
                   LiveOfSubId(tasks[t].itemHash, tasks[t].dataTypes[i]) = {}

\* C32, what the code does: the call made again finds the root record
\* unpinned by the first call, throws 'Item not found' and removes nothing
C32_RetryFails ==
    \A t \in Tasks :
        RetriedCascade(t) =>
            /\ tasks[t].result = Threw("Item not found")
            /\ Removed(tasks[t].itemHash)
            /\ Live = tasks[t].pre

\* the call made again has failed and a data record of a listed type is live
C32_LeftBehind ==
    \E t \in Tasks :
        /\ RetriedCascade(t)
        /\ tasks[t].result = Threw("Item not found")
        /\ \E i \in 1..Len(tasks[t].dataTypes) :
               LiveOfSubId(tasks[t].itemHash, tasks[t].dataTypes[i]) # {}

====
